---- MODULE Spec2Model ----
(***************************************************************************)
(* A model of backend/main.py of ai_tax_agent_prototype: the answer        *)
(* cleaner, the form-page filter, the form classifier, the field           *)
(* extractor, the aggregator inside the upload handler, the tax            *)
(* calculator, and the upload handler's use of the shared upload           *)
(* directory.                                                              *)
(*                                                                         *)
(* Python strings are sequences of one-character strings.  A Python float  *)
(* that float() parsed from a decimal literal is represented by the        *)
(* decimal it was parsed from, scaled by Scale (see ParseFloat); float()   *)
(* is monotone, so comparisons agree.  The running totals of the upload    *)
(* handler, which are sums of such floats, are binary64 values (see        *)
(* FloatAdd).                                                              *)
(***************************************************************************)
EXTENDS Integers, Sequences, FiniteSets, TLC

VARIABLES
    text,            \* clean_and_convert_to_float: the argument
    clean_result,    \* clean_and_convert_to_float: the return value, or NotRun
    filing_status,   \* calculate_tax_liability: the argument filing_status
    income,          \* calculate_tax_liability: the argument income, dollars
    federal_withheld,    \* calculate_tax_liability: the argument
    normalized_status,   \* calculate_tax_liability: the local, at the return
    tax_result,      \* calculate_tax_liability: what it returned or raised
    doc_qa_pipeline, \* the module global: "loaded", or "None" when loading failed
    page_text,       \* extract_data_with_ai: the argument page_text
    e_pc,            \* extract_data_with_ai: where the call is
    detected_form_key,   \* extract_data_with_ai: the local
    extracted_data,  \* extract_data_with_ai: the local, returned at the end
    qa_calls,        \* the calls made to doc_qa_pipeline: (field, question)
    answer,          \* extract_data_with_ai: the local, the last answer
    os_name,         \* os.name of the host: "posix" or "nt"
    upload_dir,      \* the files of UPLOAD_DIR: path -> NoFile or a file
    files,           \* upload_tax_documents: the argument files, per request
    u_pc,            \* upload_tax_documents: where each request is
    file_index,      \* the position of the loop of line 277
    page_num,        \* the position of the loop of line 286
    path_index,      \* the position of the loop of line 323
    temp_file_paths,         \* the local, per request
    doc,                     \* the local: NoDoc or the open document
    total_income,            \* the local, a binary64 value
    total_federal_withheld,  \* the local, a binary64 value
    processed_files_summary, \* the local
    response         \* what each request answered: its status and body

cleanVars == <<text, clean_result>>

taxVars == <<filing_status, income, federal_withheld, normalized_status,
             tax_result>>

extractVars == <<doc_qa_pipeline, page_text, e_pc, detected_form_key,
                 extracted_data, qa_calls, answer>>

uploadVars == <<os_name, upload_dir, files, u_pc, file_index, page_num,
                path_index, temp_file_paths, doc, total_income,
                total_federal_withheld, processed_files_summary, response>>

vars == <<cleanVars, taxVars, extractVars, uploadVars>>

----------------------------------------------------------------------------
(* Bounds of the model *)

\* the longest answer text given to the answer cleaner
MaxLen == 4

\* the longest filing-status string drawn from StatusAlphabet
MaxStatusLen == 3

\* the most pieces of text (of Vocabulary) a page text is made of
MaxPieces == 3

\* the most candidates the question-answering capability returns
MaxCandidates == 2

\* the most pages of an uploaded document
MaxPages == 3

----------------------------------------------------------------------------
(* Generic helpers *)

Max2(a, b) == IF a >= b THEN a ELSE b

Min2(a, b) == IF a <= b THEN a ELSE b

RECURSIVE Pow10(_)
Pow10(n) == IF n = 0 THEN 1 ELSE 10 * Pow10(n - 1)

\* The decimal values of this model are integers in units of 1/Scale: a text
\* of at most MaxLen characters has fewer than MaxLen fractional digits.
Scale == Pow10(MaxLen - 1)

NotRun == [run |-> FALSE]

----------------------------------------------------------------------------
(* Each specification below runs one part of the program and leaves the    *)
(* variables of the other parts in these states.                           *)

CleanIdle ==
    /\ text = <<>>
    /\ clean_result = NotRun

TaxIdle ==
    /\ filing_status = <<>>
    /\ income = 0
    /\ federal_withheld = 0
    /\ normalized_status = <<>>
    /\ tax_result = NotRun

ExtractIdle ==
    /\ page_text = <<>>
    /\ e_pc = "idle"
    /\ detected_form_key = "unknown"
    /\ extracted_data = [form_type |-> "unknown", fields |-> <<>>]
    /\ qa_calls = <<>>
    /\ answer = <<>>

\* the upload requests of the model
Requests == {1, 2}

NoFile == [exists |-> FALSE]

NoDoc == [open |-> FALSE]

NoResponse == [status |-> 0]

UploadIdle ==
    /\ os_name = "posix"
    /\ upload_dir = <<>>
    /\ files = [r \in Requests |-> <<>>]
    /\ u_pc = [r \in Requests |-> "absent"]
    /\ file_index = [r \in Requests |-> 1]
    /\ page_num = [r \in Requests |-> 1]
    /\ path_index = [r \in Requests |-> 1]
    /\ temp_file_paths = [r \in Requests |-> <<>>]
    /\ doc = [r \in Requests |-> NoDoc]
    /\ total_income = [r \in Requests |-> 0]
    /\ total_federal_withheld = [r \in Requests |-> 0]
    /\ processed_files_summary = [r \in Requests |-> <<>>]
    /\ response = [r \in Requests |-> NoResponse]

----------------------------------------------------------------------------
(* clean_and_convert_to_float, main.py 77-98 *)

\* str.isdigit / the regular expression class \d, on the characters of the model
Digits == {"0", "1", "2", "3", "4", "5", "6", "7", "8", "9"}

DigitVal(c) ==
    CASE c = "0" -> 0 [] c = "1" -> 1 [] c = "2" -> 2 [] c = "3" -> 3
      [] c = "4" -> 4 [] c = "5" -> 5 [] c = "6" -> 6 [] c = "7" -> 7
      [] c = "8" -> 8 [] c = "9" -> 9

\* the class [\d,] of the pattern
DigitOrComma == Digits \cup {","}

\* any(char.isdigit() for char in text), line 82
HasDigit(s) == \E i \in 1..Len(s) : s[i] \in Digits

\* the greedy repetition of a character class from position i: the first
\* position at or after i whose character is outside the class
RECURSIVE SkipClass(_, _, _)
SkipClass(s, i, class) ==
    IF i <= Len(s) /\ s[i] \in class THEN SkipClass(s, i + 1, class) ELSE i

\* re.match of [\d,]+\.?\d* at position i: the position after the match, or
\* 0 when the pattern does not match at i.  Every quantifier is greedy and
\* the greedy choice always leads to a match, so nothing backtracks.
MatchNumberAt(s, i) ==
    IF ~(i <= Len(s) /\ s[i] \in DigitOrComma) THEN 0
    ELSE LET j1 == SkipClass(s, i, DigitOrComma)
             j2 == IF j1 <= Len(s) /\ s[j1] = "." THEN j1 + 1 ELSE j1
         IN  SkipClass(s, j2, Digits)

\* re.findall(r'[\d,]+\.?\d*', text), line 85: the leftmost matches, none
\* overlapping, scanning from position i
RECURSIVE FindAllFrom(_, _)
FindAllFrom(s, i) ==
    IF i > Len(s) THEN <<>>
    ELSE LET e == MatchNumberAt(s, i)
         IN  IF e = 0 THEN FindAllFrom(s, i + 1)
             ELSE <<SubSeq(s, i, e - 1)>> \o FindAllFrom(s, e)

potential_numbers(s) == FindAllFrom(s, 1)

\* str.replace(c, ''), line 91
RECURSIVE RemoveChar(_, _)
RemoveChar(s, c) ==
    IF s = <<>> THEN <<>>
    ELSE IF Head(s) = c THEN RemoveChar(Tail(s), c)
    ELSE <<Head(s)>> \o RemoveChar(Tail(s), c)

\* num_str.replace(',', '').replace('$', '').strip(), line 91 (a match holds
\* no white space, so strip changes nothing)
cleaned_str(num_str) == RemoveChar(RemoveChar(num_str, ","), "$")

\* the value of a run of digits read as a decimal integer
RECURSIVE DigitsValue(_)
DigitsValue(s) ==
    IF s = <<>> THEN 0
    ELSE 10 * DigitsValue(SubSeq(s, 1, Len(s) - 1)) + DigitVal(s[Len(s)])

\* float(cleaned_str), line 94, on a string of digits and points: ValueError
\* unless it holds a digit and at most one point; else the decimal value, in
\* units of 1/Scale.
ParseFloat(s) ==
    LET points == {i \in 1..Len(s) : s[i] = "."}
        digits == {i \in 1..Len(s) : s[i] \in Digits}
    IN  IF digits = {} \/ Cardinality(points) > 1
            \/ points \cup digits # 1..Len(s)
        THEN [ok |-> FALSE, v |-> 0]
        ELSE IF points = {}
        THEN [ok |-> TRUE, v |-> DigitsValue(s) * Scale]
        ELSE LET p == CHOOSE i \in points : TRUE
                 intpart == SubSeq(s, 1, p - 1)
                 frac == SubSeq(s, p + 1, Len(s))
             IN  [ok |-> TRUE,
                  v |-> DigitsValue(intpart) * Scale
                        + DigitsValue(frac) * (Scale \div Pow10(Len(frac)))]

\* the loop of lines 89-96: the parsed value of every match that is not
\* empty once cleaned and that float() accepts
RECURSIVE valid_numbers(_)
valid_numbers(nums) ==
    IF nums = <<>> THEN <<>>
    ELSE LET c == cleaned_str(Head(nums))
             f == ParseFloat(c)
         IN  (IF c # <<>> /\ f.ok THEN <<f.v>> ELSE <<>>)
             \o valid_numbers(Tail(nums))

\* max(valid_numbers), line 98
RECURSIVE MaxOfSeq(_)
MaxOfSeq(q) ==
    IF Len(q) = 1 THEN q[1] ELSE Max2(q[1], MaxOfSeq(Tail(q)))

\* a plausible slip: min for max
RECURSIVE MinOfSeq(_)
MinOfSeq(q) ==
    IF Len(q) = 1 THEN q[1] ELSE Min2(q[1], MinOfSeq(Tail(q)))

clean_returns_min(s) ==
    IF ~HasDigit(s) THEN 0
    ELSE IF potential_numbers(s) = <<>> THEN 0
    ELSE LET v == valid_numbers(potential_numbers(s))
         IN  IF v # <<>> THEN MinOfSeq(v) ELSE 0

clean_and_convert_to_float(s) ==
    IF ~HasDigit(s) THEN 0
    ELSE IF potential_numbers(s) = <<>> THEN 0
    ELSE LET v == valid_numbers(potential_numbers(s))
         IN  IF v # <<>> THEN MaxOfSeq(v) ELSE 0

----------------------------------------------------------------------------
(* Python float arithmetic (IEEE 754 binary64, round to nearest, ties to    *)
(* even), as the running totals of the upload handler use it.  A natural   *)
(* number is a sequence of bits, lowest first, its highest bit 1.  A       *)
(* non-negative float is [m, e], standing for m * 2^e, with m zero or odd  *)
(* and of at most 53 bits.  No total of the model leaves the normal range. *)

RECURSIVE BitsOf(_)
BitsOf(n) == IF n = 0 THEN <<>> ELSE <<n % 2>> \o BitsOf(n \div 2)

RECURSIVE StripHighZeros(_)
StripHighZeros(b) ==
    IF b = <<>> THEN <<>>
    ELSE IF b[Len(b)] = 0 THEN StripHighZeros(SubSeq(b, 1, Len(b) - 1))
    ELSE b

BitAt(b, i) == IF i <= Len(b) THEN b[i] ELSE 0

RECURSIVE AddBitsFrom(_, _, _, _)
AddBitsFrom(a, b, i, carry) ==
    IF i > Len(a) /\ i > Len(b) THEN (IF carry = 1 THEN <<1>> ELSE <<>>)
    ELSE LET sum == BitAt(a, i) + BitAt(b, i) + carry
         IN  <<sum % 2>> \o AddBitsFrom(a, b, i + 1, sum \div 2)

AddBits(a, b) == AddBitsFrom(a, b, 1, 0)

ShiftLeft(b, n) == IF b = <<>> THEN <<>> ELSE [i \in 1..n |-> 0] \o b

ByteBits(n) == [i \in 1..8 |-> (n \div 2^(i - 1)) % 2]

\* the first k base-256 digits of the fraction r / d (r < d) as bits, lowest
\* first, and the remainder they leave
RECURSIVE FractionDigits(_, _, _)
FractionDigits(r, d, k) ==
    IF k = 0 THEN [q |-> <<>>, r |-> r]
    ELSE LET rest == FractionDigits((r * 256) % d, d, k - 1)
         IN  [q |-> rest.q \o ByteBits((r * 256) \div d), r |-> rest.r]

FloatZero == [m |-> <<>>, e |-> 0]

\* m * 2^e with m zero or odd
Canonical(m, e) ==
    IF m = <<>> THEN FloatZero
    ELSE LET low == CHOOSE i \in 1..Len(m) :
                        m[i] = 1 /\ \A j \in 1..(i - 1) : m[j] = 0
         IN  [m |-> SubSeq(m, low, Len(m)), e |-> e + low - 1]

\* the float nearest to m * 2^e (plus a non-zero part below m's lowest bit
\* when sticky), ties to even
RoundToFloat(m, e, sticky) ==
    IF Len(m) <= 53 THEN Canonical(m, e)
    ELSE LET d == Len(m) - 53
             kept == SubSeq(m, d + 1, Len(m))
             below == sticky \/ \E i \in 1..(d - 1) : m[i] = 1
             up == m[d] = 1 /\ (below \/ kept[1] = 1)
         IN  Canonical(IF up THEN AddBits(kept, <<1>>) ELSE kept, e + d)

\* x + y on floats, as in total_income += ..., lines 299-304
FloatAdd(x, y) ==
    LET e == Min2(x.e, y.e)
    IN  RoundToFloat(AddBits(ShiftLeft(x.m, x.e - e), ShiftLeft(y.m, y.e - e)),
                     e, FALSE)

\* the float that float() returns for the decimal v / Scale, line 94: the
\* whole part and 80 bits of the fraction, rounded
FloatOfDecimal(v) ==
    IF v = 0 THEN FloatZero
    ELSE LET qr == FractionDigits(v % Scale, Scale, 10)
         IN  RoundToFloat(StripHighZeros(qr.q \o BitsOf(v \div Scale)),
                          0 - 80, qr.r # 0)

----------------------------------------------------------------------------
(* The 2024 tables, main.py 59-69 *)

Single == <<"S", "i", "n", "g", "l", "e">>

MarriedFilingJointly ==
    <<"M", "a", "r", "r", "i", "e", "d", " ", "F", "i", "l", "i", "n", "g",
      " ", "J", "o", "i", "n", "t", "l", "y">>

MarriedFilingSeparately ==
    <<"M", "a", "r", "r", "i", "e", "d", " ", "F", "i", "l", "i", "n", "g",
      " ", "S", "e", "p", "a", "r", "a", "t", "e", "l", "y">>

HeadOfHousehold ==
    <<"H", "e", "a", "d", " ", "o", "f", " ", "H", "o", "u", "s", "e", "h",
      "o", "l", "d">>

MFJ == <<"M", "F", "J">>

MFS == <<"M", "F", "S">>

HoH == <<"H", "o", "H">>

HOH == <<"H", "O", "H">>

\* STANDARD_DEDUCTIONS, lines 59-63: seven keys
STANDARD_DEDUCTIONS ==
    [k \in {Single, MarriedFilingJointly, MFJ, MarriedFilingSeparately, MFS,
            HeadOfHousehold, HoH} |->
        CASE k = Single -> 14600
          [] k \in {MarriedFilingJointly, MFJ} -> 29200
          [] k \in {MarriedFilingSeparately, MFS} -> 14600
          [] k \in {HeadOfHousehold, HoH} -> 21900]

\* float('inf'), the upper bound of every top bracket
Inf == -1

\* TAX_BRACKETS_2024, lines 64-69: four keys, each a list of
\* (lower, upper, rate), the rate in hundredths
TAX_BRACKETS_2024 ==
    [k \in {Single, MarriedFilingJointly, MarriedFilingSeparately,
            HeadOfHousehold} |->
        CASE k = Single ->
               <<<<0, 11600, 10>>, <<11601, 47150, 12>>, <<47151, 100525, 22>>,
                 <<100526, 191950, 24>>, <<191951, 243725, 32>>,
                 <<243726, 609350, 35>>, <<609351, Inf, 37>>>>
          [] k = MarriedFilingJointly ->
               <<<<0, 23200, 10>>, <<23201, 94300, 12>>, <<94301, 201050, 22>>,
                 <<201051, 383900, 24>>, <<383901, 487450, 32>>,
                 <<487451, 731200, 35>>, <<731201, Inf, 37>>>>
          [] k = MarriedFilingSeparately ->
               <<<<0, 11600, 10>>, <<11601, 47150, 12>>, <<47151, 100525, 22>>,
                 <<100526, 191950, 24>>, <<191951, 243725, 32>>,
                 <<243726, 365600, 35>>, <<365601, Inf, 37>>>>
          [] k = HeadOfHousehold ->
               <<<<0, 16550, 10>>, <<16551, 63100, 12>>, <<63101, 100500, 22>>,
                 <<100501, 191950, 24>>, <<191951, 243700, 32>>,
                 <<243701, 609350, 35>>, <<609351, Inf, 37>>>>]

----------------------------------------------------------------------------
(* calculate_tax_liability, main.py 185-206 *)

LowerCase ==
    <<"a", "b", "c", "d", "e", "f", "g", "h", "i", "j", "k", "l", "m", "n",
      "o", "p", "q", "r", "s", "t", "u", "v", "w", "x", "y", "z">>

UpperCase ==
    <<"A", "B", "C", "D", "E", "F", "G", "H", "I", "J", "K", "L", "M", "N",
      "O", "P", "Q", "R", "S", "T", "U", "V", "W", "X", "Y", "Z">>

Letters == {LowerCase[i] : i \in 1..Len(LowerCase)}
              \cup {UpperCase[i] : i \in 1..Len(UpperCase)}

UpperOf ==
    [c \in Letters |->
        UpperCase[CHOOSE i \in 1..Len(UpperCase) :
                      c = LowerCase[i] \/ c = UpperCase[i]]]

LowerOf ==
    [c \in Letters |->
        LowerCase[CHOOSE i \in 1..Len(LowerCase) :
                      c = LowerCase[i] \/ c = UpperCase[i]]]

IsCased(c) == c \in Letters

ToUpperChar(c) == IF c \in Letters THEN UpperOf[c] ELSE c

ToLowerChar(c) == IF c \in Letters THEN LowerOf[c] ELSE c

\* str.upper()
Upper(s) == [i \in 1..Len(s) |-> ToUpperChar(s[i])]

\* str.lower()
Lower(s) == [i \in 1..Len(s) |-> ToLowerChar(s[i])]

\* str.title(): a cased character is upper-cased when the character before
\* it is not cased (or there is none), and lower-cased otherwise
Title(s) ==
    [i \in 1..Len(s) |->
        IF i > 1 /\ IsCased(s[i - 1]) THEN ToLowerChar(s[i])
        ELSE ToUpperChar(s[i])]

\* status_map, line 187
status_map ==
    [k \in {MFJ, MFS, HOH} |->
        CASE k = MFJ -> MarriedFilingJointly
          [] k = MFS -> MarriedFilingSeparately
          [] k = HOH -> HeadOfHousehold]

\* a plausible slip: the alias looked up as given, and the string used as
\* given when it is no alias
normalize_as_given(fs) ==
    LET key == RemoveChar(fs, " ")
        n == IF key \in DOMAIN status_map THEN status_map[key] ELSE fs
    IN  IF n \notin DOMAIN STANDARD_DEDUCTIONS THEN Single ELSE n

\* lines 188-191: normalized_status
normalize_status(fs) ==
    LET key == RemoveChar(Upper(fs), " ")
        n == IF key \in DOMAIN status_map THEN status_map[key] ELSE Title(fs)
    IN  IF n \notin DOMAIN STANDARD_DEDUCTIONS THEN Single ELSE n

\* upper - lower, line 199, upper possibly float('inf')
BracketWidth(lower, upper) == IF upper = Inf THEN Inf ELSE upper - lower

\* min(remaining_income, upper - lower), line 199
MinWithInf(remaining, width) ==
    IF width = Inf THEN remaining ELSE Min2(remaining, width)

\* the loop of lines 197-201 from bracket k on: taxable_in_bracket of every
\* iteration that ran, in order
RECURSIVE BracketLoop(_, _, _)
BracketLoop(brackets, k, remaining_income) ==
    IF k > Len(brackets) \/ remaining_income <= 0 THEN <<>>
    ELSE LET taxable_in_bracket ==
                 MinWithInf(remaining_income,
                            BracketWidth(brackets[k][1], brackets[k][2]))
         IN  <<taxable_in_bracket>>
             \o BracketLoop(brackets, k + 1,
                            remaining_income - taxable_in_bracket)

\* calculated_tax, in cents: the sum of taxable_in_bracket * rate
RECURSIVE TaxOf(_, _, _)
TaxOf(brackets, amounts, k) ==
    IF k > Len(amounts) THEN 0
    ELSE amounts[k] * brackets[k][3] + TaxOf(brackets, amounts, k + 1)

\* The function from line 192 on, for a normalized status n.  Money is in
\* dollars, calculated_tax and tax_due_or_refund in cents.  A key missing
\* from a table raises KeyError.
TaxSummaryFor(n, inc, withheld) ==
    IF n \notin DOMAIN STANDARD_DEDUCTIONS \/ n \notin DOMAIN TAX_BRACKETS_2024
    THEN [run |-> TRUE, raised |-> "KeyError"]
    ELSE LET standard_deduction == STANDARD_DEDUCTIONS[n]
             taxable_income == Max2(0, inc - standard_deduction)
             brackets == TAX_BRACKETS_2024[n]
             amounts == BracketLoop(brackets, 1, taxable_income)
             calculated_tax == TaxOf(brackets, amounts, 1)
         IN  [run |-> TRUE, raised |-> "",
              gross_income |-> inc,
              standard_deduction_applied |-> standard_deduction,
              taxable_income |-> taxable_income,
              taxable_in_bracket |-> amounts,
              calculated_tax |-> calculated_tax,
              total_federal_withheld |-> withheld,
              tax_due_or_refund |-> calculated_tax - 100 * withheld]

calculate_tax_liability(inc, withheld, fs) ==
    TaxSummaryFor(normalize_status(fs), inc, withheld)

----------------------------------------------------------------------------
(* Regular-expression search, as is_likely_tax_form_page and               *)
(* extract_data_with_ai use it: re.search(pattern, page_text,              *)
(* re.IGNORECASE)                                                          *)

\* the positions where the string p occurs in the string s
OccurrencesOf(p, s) ==
    {i \in 1..(Len(s) - Len(p) + 1) : SubSeq(s, i, i + Len(p) - 1) = p}

\* a pattern that is a literal string, letter case ignored
SearchLiteral(p, s) == OccurrencesOf(Lower(p), Lower(s)) # {}

LowerLetters == {LowerCase[i] : i \in 1..Len(LowerCase)}

\* the literal parts of the six indicators of lines 105-112
Literal_OMB_No ==
    <<"O", "M", "B", " ", "N", "o", ".">>

Literal_Employer_identification_number ==
    <<"E", "m", "p", "l", "o", "y", "e", "r", " ", "i", "d", "e", "n", "t",
      "i", "f", "i", "c", "a", "t", "i", "o", "n", " ", "n", "u", "m", "b",
      "e", "r">>

Literal_PAYERS ==
    <<"P", "A", "Y", "E", "R", "'", "S">>

Literal_RECIPIENTS ==
    <<"R", "E", "C", "I", "P", "I", "E", "N", "T", "'", "S">>

Literal_TIN ==
    <<"T", "I", "N">>

Literal_Copy ==
    <<"C", "o", "p", "y", " ">>

Literal_Form ==
    <<"F", "o", "r", "m", " ">>

\* p.*TIN: p, then TIN later on the same line ("." matches no newline)
SearchThenTIN(p, s) ==
    LET ls == Lower(s)
    IN  \E i \in OccurrencesOf(Lower(p), ls) :
        \E j \in OccurrencesOf(Lower(Literal_TIN), ls) :
            /\ j >= i + Len(p)
            /\ \A m \in (i + Len(p))..(j - 1) : ls[m] # "\n"

\* Copy [A-Z0-9], letter case ignored
SearchCopy(s) ==
    LET ls == Lower(s)
    IN  \E i \in OccurrencesOf(Lower(Literal_Copy), ls) :
            /\ i + 5 <= Len(ls)
            /\ ls[i + 5] \in LowerLetters \cup Digits

\* Form \d{4}-?[A-Z]{2,3}, letter case ignored
SearchForm(s) ==
    LET ls == Lower(s)
    IN  \E i \in OccurrencesOf(Lower(Literal_Form), ls) :
            /\ i + 10 <= Len(ls)
            /\ \A m \in (i + 5)..(i + 8) : ls[m] \in Digits
            /\ LET j == IF ls[i + 9] = "-" THEN i + 10 ELSE i + 9
               IN  /\ j + 1 <= Len(ls)
                   /\ ls[j] \in LowerLetters
                   /\ ls[j + 1] \in LowerLetters

----------------------------------------------------------------------------
(* is_likely_tax_form_page, main.py 100-115 *)

\* form_indicators, lines 105-112, in the order of the list
form_indicators ==
    <<"OMB No\\.", "Employer identification number", "PAYER'S.*TIN",
      "RECIPIENT'S.*TIN", "Copy [A-Z0-9]", "Form \\d{4}-?[A-Z]{2,3}">>

\* re.search(form_indicators[k], page_text, re.IGNORECASE)
IndicatorMatches(k, s) ==
    CASE k = 1 -> SearchLiteral(Literal_OMB_No, s)
      [] k = 2 -> SearchLiteral(Literal_Employer_identification_number, s)
      [] k = 3 -> SearchThenTIN(Literal_PAYERS, s)
      [] k = 4 -> SearchThenTIN(Literal_RECIPIENTS, s)
      [] k = 5 -> SearchCopy(s)
      [] k = 6 -> SearchForm(s)

\* match_count, line 114
match_count(s) ==
    Cardinality({k \in 1..Len(form_indicators) : IndicatorMatches(k, s)})

\* a plausible slip: one indicator is enough
is_likely_with_one_match(s) == match_count(s) >= 1

is_likely_tax_form_page(s) == match_count(s) >= 2

----------------------------------------------------------------------------
(* extract_data_with_ai, main.py 117-180 *)

Keyword_W2 ==
    <<"W", "a", "g", "e", "s", ",", " ", "t", "i", "p", "s", ",", " ", "o",
      "t", "h", "e", "r", " ", "c", "o", "m", "p", "e", "n", "s", "a", "t",
      "i", "o", "n">>

Keyword_1099_NEC ==
    <<"N", "o", "n", "e", "m", "p", "l", "o", "y", "e", "e", " ", "c", "o",
      "m", "p", "e", "n", "s", "a", "t", "i", "o", "n">>

Keyword_1099_INT ==
    <<"I", "n", "t", "e", "r", "e", "s", "t", " ", "I", "n", "c", "o", "m",
      "e">>

\* form_type_keywords, lines 132-136, in the order of the dict
form_type_keywords ==
    << <<"W-2", Keyword_W2>>, <<"1099-NEC", Keyword_1099_NEC>>,
       <<"1099-INT", Keyword_1099_INT>> >>

\* a plausible slip: the loop without its break, the last match winning
RECURSIVE detect_without_break(_, _, _)
detect_without_break(s, k, found) ==
    IF k > Len(form_type_keywords) THEN found
    ELSE detect_without_break(s, k + 1,
            IF SearchLiteral(form_type_keywords[k][2], s)
            THEN form_type_keywords[k][1] ELSE found)

detect_last_match(s) == detect_without_break(s, 1, "unknown")

\* the loop of lines 138-142 from entry k on
RECURSIVE detect_from(_, _)
detect_from(s, k) ==
    IF k > Len(form_type_keywords) THEN "unknown"
    ELSE IF SearchLiteral(form_type_keywords[k][2], s)
    THEN form_type_keywords[k][1]
    ELSE detect_from(s, k + 1)

\* detected_form_key at line 144
detect_form_key(s) == detect_from(s, 1)

\* questions, lines 151-162: per form type the fields in the order of the
\* dict, each with its question
questions ==
    [f \in {"W-2", "1099-NEC", "1099-INT"} |->
        CASE f = "W-2" ->
               << <<"wages_tips_other_comp",
                    "What is the amount in box 1 for 'Wages, tips, other compensation'?">>,
                  <<"federal_income_tax_withheld",
                    "What is the amount in box 2 for 'Federal income tax withheld'?">> >>
          [] f = "1099-NEC" ->
               << <<"nonemployee_compensation",
                    "What is the amount in box 1 for 'Nonemployee compensation'?">> >>
          [] f = "1099-INT" ->
               << <<"interest_income",
                    "What is the amount in box 1 for 'Interest Income'?">> >>]

\* CONFIDENCE_THRESHOLD = 0.1, line 164; scores are in hundredths
CONFIDENCE_THRESHOLD == 10

\* a dict
EmptyDict == [k \in {} |-> 0]

DictPut(d, k, v) == [x \in DOMAIN d \cup {k} |-> IF x = k THEN v ELSE d[x]]

\* dict.get(k, 0.0)
DictGet(d, k) == IF k \in DOMAIN d THEN d[k] ELSE 0

\* sorted(..., reverse=True) is stable: a candidate goes after every
\* candidate already placed whose score is at least its own
RECURSIVE InsertByScore(_, _)
InsertByScore(placed, x) ==
    IF placed = <<>> THEN <<x>>
    ELSE IF Head(placed).score >= x.score
    THEN <<Head(placed)>> \o InsertByScore(Tail(placed), x)
    ELSE <<x>> \o placed

\* sorted(answer, key=lambda x: x['score'], reverse=True), line 170
RECURSIVE SortedByScoreDescending(_)
SortedByScoreDescending(a) ==
    IF a = <<>> THEN <<>>
    ELSE InsertByScore(SortedByScoreDescending(SubSeq(a, 1, Len(a) - 1)),
                       a[Len(a)])

\* a plausible slip: sorted(answer, key=...)[-1], the last of the candidates
\* that tie for the highest score
RECURSIVE LastBest(_)
LastBest(a) ==
    IF Len(a) = 1 THEN a[1]
    ELSE LET rest == LastBest(Tail(a))
         IN  IF a[1].score > rest.score THEN a[1] ELSE rest

\* best_answer, line 170, of a non-empty answer
best_answer(a) == SortedByScoreDescending(a)[1]

\* lines 169-178: extracted_data["fields"] after the answer to the question
\* of one field
store_answer(fields, field, a) ==
    IF a = <<>> THEN fields
    ELSE IF best_answer(a).score >= CONFIDENCE_THRESHOLD
    THEN DictPut(fields, field, clean_and_convert_to_float(best_answer(a).answer))
    ELSE fields

\* the loop of lines 166-178 from question k on, the capability answering
\* the question of field f with qa[f]
RECURSIVE ask_all(_, _, _, _)
ask_all(form, k, fields, qa) ==
    IF k > Len(questions[form]) THEN fields
    ELSE ask_all(form, k + 1,
                 store_answer(fields, questions[form][k][1],
                              qa[questions[form][k][1]]),
                 qa)

\* extract_data_with_ai on a page whose image makes the capability answer qa,
\* the capability being loaded and raising nothing
extract_data_with_ai(s, qa) ==
    IF ~is_likely_tax_form_page(s)
    THEN [form_type |-> "unknown", fields |-> EmptyDict]
    ELSE IF detect_form_key(s) = "unknown"
    THEN [form_type |-> "unknown", fields |-> EmptyDict]
    ELSE [form_type |-> detect_form_key(s),
          fields |-> ask_all(detect_form_key(s), 1, EmptyDict, qa)]

----------------------------------------------------------------------------
(* The answer cleaner on every text of at most MaxLen characters *)

CleanAlphabet == {"1", "2", ",", ".", "$", "-"}

CleanTexts == UNION {[1..n -> CleanAlphabet] : n \in 0..MaxLen}

InitClean ==
    /\ text \in CleanTexts
    /\ clean_result = NotRun
    /\ doc_qa_pipeline = "loaded"
    /\ TaxIdle
    /\ ExtractIdle
    /\ UploadIdle

Clean ==
    /\ clean_result = NotRun
    /\ clean_result' = [run |-> TRUE, value |-> clean_and_convert_to_float(text)]
    /\ UNCHANGED <<text, taxVars, extractVars, uploadVars>>

NextClean == Clean

SpecClean == InitClean /\ [][NextClean]_vars

----------------------------------------------------------------------------
(* The tax calculator on filing-status strings and incomes *)

\* filing-status strings a client may send, besides the table's own keys
OtherStatuses ==
    { <<"s", "i", "n", "g", "l", "e">>,
      <<"S", "I", "N", "G", "L", "E">>,
      <<"m", "f", "j">>,
      <<"M", " ", "F", " ", "J">>,
      <<"h", "o", "h">>,
      <<"h", "e", "a", "d", " ", "o", "f", " ", "h", "o", "u", "s", "e", "h",
        "o", "l", "d">>,
      <<"H", "e", "a", "d", " ", "O", "f", " ", "H", "o", "u", "s", "e", "h",
        "o", "l", "d">>,
      <<"m", "a", "r", "r", "i", "e", "d", " ", "f", "i", "l", "i", "n", "g",
        " ", "j", "o", "i", "n", "t", "l", "y">>,
      <<"M", "A", "R", "R", "I", "E", "D", " ", "F", "I", "L", "I", "N", "G",
        " ", "S", "E", "P", "A", "R", "A", "T", "E", "L", "Y">>,
      <<"F", "o", "o">>,
      <<"Q", "u", "a", "l", "i", "f", "y", "i", "n", "g", " ", "W", "i", "d",
        "o", "w">> }

NamedStatuses == DOMAIN STANDARD_DEDUCTIONS \cup {HOH} \cup OtherStatuses

StatusAlphabet == {"M", "F", "J", "S", "H", "o", "h", "m", " "}

ShortStatuses == UNION {[1..n -> StatusAlphabet] : n \in 0..MaxStatusLen}

\* incomes whose taxable part sits on a bracket bound, and just above it
BoundaryIncomes ==
    UNION { UNION { { STANDARD_DEDUCTIONS[n] + TAX_BRACKETS_2024[n][k][2],
                      STANDARD_DEDUCTIONS[n] + TAX_BRACKETS_2024[n][k][2] + 1 } :
                    k \in {j \in 1..Len(TAX_BRACKETS_2024[n]) :
                              TAX_BRACKETS_2024[n][j][2] # Inf} } :
            n \in DOMAIN TAX_BRACKETS_2024 }

FewIncomes == {0, 14600, 50000, 61750}

InitTax ==
    /\ \/ filing_status \in NamedStatuses /\ income \in BoundaryIncomes \cup FewIncomes
       \/ filing_status \in ShortStatuses /\ income \in FewIncomes
    /\ federal_withheld \in {0, 5000}
    /\ normalized_status = <<>>
    /\ tax_result = NotRun
    /\ doc_qa_pipeline = "loaded"
    /\ CleanIdle
    /\ ExtractIdle
    /\ UploadIdle

Calculate ==
    /\ tax_result = NotRun
    /\ normalized_status' = normalize_status(filing_status)
    /\ tax_result' = calculate_tax_liability(income, federal_withheld, filing_status)
    /\ UNCHANGED <<filing_status, income, federal_withheld, cleanVars,
                   extractVars, uploadVars>>

NextTax == Calculate

SpecTax == InitTax /\ [][NextTax]_vars

----------------------------------------------------------------------------
(* extract_data_with_ai on one page, step by step *)

Text_OMB ==
    <<"O", "M", "B", " ", "N", "o", ".", " ", "1", "5", "4", "5", "-", "0",
      "0", "0", "8", " ">>

Text_EIN ==
    <<"e", "m", "p", "l", "o", "y", "e", "r", " ", "i", "d", "e", "n", "t",
      "i", "f", "i", "c", "a", "t", "i", "o", "n", " ", "n", "u", "m", "b",
      "e", "r", " ">>

Text_PAYERS ==
    <<"P", "A", "Y", "E", "R", "'", "S", " ">>

Text_TIN ==
    <<"T", "I", "N", "\n">>

Text_Copy_Form ==
    <<"C", "o", "p", "y", " ", "B", " ", "F", "o", "r", "m", " ", "1", "0",
      "9", "9", "-", "N", "E", "C", " ">>

Text_Wages ==
    <<"W", "a", "g", "e", "s", ",", " ", "t", "i", "p", "s", ",", " ", "o",
      "t", "h", "e", "r", " ", "c", "o", "m", "p", "e", "n", "s", "a", "t",
      "i", "o", "n", " ">>

Text_Nonemployee ==
    <<"N", "o", "n", "e", "m", "p", "l", "o", "y", "e", "e", " ", "c", "o",
      "m", "p", "e", "n", "s", "a", "t", "i", "o", "n", " ">>

Text_interest ==
    <<"i", "n", "t", "e", "r", "e", "s", "t", " ", "i", "n", "c", "o", "m",
      "e", " ">>

Text_Instructions ==
    <<"I", "n", "s", "t", "r", "u", "c", "t", "i", "o", "n", "s", " ", "f",
      "o", "r", " ", "R", "e", "c", "i", "p", "i", "e", "n", "t", "\n">>

Answer_500 ==
    <<"$", "5", "0", "0">>

Answer_12_1200 ==
    <<"1", "2", " ", "1", ",", "2", "0", "0">>

\* the pieces page texts are made of: indicators, one lower-cased, PAYER'S
\* and TIN apart, a line with two indicators, the three keywords, one
\* lower-cased, and a line of instructions
Vocabulary ==
    {Text_OMB, Text_EIN, Text_PAYERS, Text_TIN, Text_Copy_Form, Text_Wages,
     Text_Nonemployee, Text_interest, Text_Instructions}

RECURSIVE Concat(_)
Concat(pieces) ==
    IF pieces = <<>> THEN <<>> ELSE Head(pieces) \o Concat(Tail(pieces))

PageTexts ==
    {Concat(p) : p \in UNION {[1..n -> Vocabulary] : n \in 0..MaxPieces}}

\* one page of each form type, on which every answer is tried
SamplePages ==
    {Concat(<<Text_Copy_Form, Text_Wages>>),
     Concat(<<Text_Copy_Form, Text_Nonemployee>>),
     Concat(<<Text_Copy_Form, Text_interest>>)}

\* scores below, at and above the threshold, in hundredths
Scores == {5, CONFIDENCE_THRESHOLD, 90}

Candidates ==
    [answer : {Answer_500, Answer_12_1200}, score : Scores]

CandidateLists == UNION {[1..n -> Candidates] : n \in 0..MaxCandidates}

FewCandidateLists ==
    {<<>>, <<[answer |-> Answer_500, score |-> 90]>>,
     <<[answer |-> Answer_12_1200, score |-> 5]>>}

\* what the capability may answer on a page
AnswersOn(s) == IF s \in SamplePages THEN CandidateLists ELSE FewCandidateLists

InitExtract ==
    /\ doc_qa_pipeline \in {"loaded", "None"}
    /\ page_text \in PageTexts
    /\ e_pc = "called"
    /\ detected_form_key = "unknown"
    /\ extracted_data = [form_type |-> "unknown", fields |-> EmptyDict]
    /\ qa_calls = <<>>
    /\ answer = <<>>
    /\ CleanIdle
    /\ TaxIdle
    /\ UploadIdle

\* lines 121-130
CheckPage ==
    /\ e_pc = "called"
    /\ e_pc' = IF doc_qa_pipeline = "None" THEN "raised"
               ELSE IF ~is_likely_tax_form_page(page_text) THEN "returned"
               ELSE "classify"
    /\ extracted_data' = [form_type |-> "unknown", fields |-> EmptyDict]
    /\ UNCHANGED <<doc_qa_pipeline, page_text, detected_form_key, qa_calls,
                   answer, cleanVars, taxVars,
                   uploadVars>>

\* lines 132-149
ClassifyPage ==
    /\ e_pc = "classify"
    /\ detected_form_key' = detect_form_key(page_text)
    /\ IF detected_form_key' = "unknown"
       THEN /\ e_pc' = "returned"
            /\ UNCHANGED extracted_data
       ELSE /\ e_pc' = "ask"
            /\ extracted_data' =
                  [extracted_data EXCEPT !.form_type = detected_form_key']
    /\ UNCHANGED <<doc_qa_pipeline, page_text, qa_calls, answer, cleanVars,
                   taxVars,
                   uploadVars>>

\* one iteration of the loop of lines 166-178, the capability returning a
AskQuestion ==
    /\ e_pc = "ask"
    /\ Len(qa_calls) < Len(questions[detected_form_key])
    /\ \E a \in AnswersOn(page_text) :
          LET q == questions[detected_form_key][Len(qa_calls) + 1]
          IN  /\ qa_calls' = Append(qa_calls, q)
              /\ answer' = a
              /\ extracted_data' =
                    [extracted_data EXCEPT
                        !.fields = store_answer(extracted_data.fields, q[1], a)]
    /\ UNCHANGED <<doc_qa_pipeline, page_text, e_pc, detected_form_key,
                   cleanVars, taxVars,
                   uploadVars>>

\* line 168, the capability raising: the exception leaves the function
CapabilityRaises ==
    /\ e_pc = "ask"
    /\ Len(qa_calls) < Len(questions[detected_form_key])
    /\ qa_calls' = Append(qa_calls,
                          questions[detected_form_key][Len(qa_calls) + 1])
    /\ e_pc' = "raised"
    /\ UNCHANGED <<doc_qa_pipeline, page_text, detected_form_key,
                   extracted_data, answer, cleanVars, taxVars,
                   uploadVars>>

\* line 180
ReturnData ==
    /\ e_pc = "ask"
    /\ Len(qa_calls) = Len(questions[detected_form_key])
    /\ e_pc' = "returned"
    /\ UNCHANGED <<doc_qa_pipeline, page_text, detected_form_key,
                   extracted_data, qa_calls, answer, cleanVars, taxVars,
                   uploadVars>>

NextExtract ==
    \/ CheckPage
    \/ ClassifyPage
    \/ AskQuestion
    \/ CapabilityRaises
    \/ ReturnData

SpecExtract == InitExtract /\ [][NextExtract]_vars

----------------------------------------------------------------------------
(* upload_tax_documents, main.py 267-324.  Each request is a run of the    *)
(* handler; a step is one call into the file system, the PDF library or    *)
(* the extractor.  The handler never awaits, so the runs of one server     *)
(* process follow one another; runs interleave when the application is     *)
(* served by several worker processes, which share UPLOAD_DIR.             *)

\* UPLOAD_DIR, lines 72-73
UPLOAD_DIR == <<"t", "e", "m", "p", "_", "u", "p", "l", "o", "a", "d", "s">>

\* os.path.join(UPLOAD_DIR, name) for a name without a separator
path_join(dir, name) == dir \o <<"/">> \o name

\* str.endswith
EndsWith(s, suffix) ==
    /\ Len(s) >= Len(suffix)
    /\ SubSeq(s, Len(s) - Len(suffix) + 1, Len(s)) = suffix

\* the condition of line 278
is_skipped(filename) ==
    filename = <<>> \/ ~EndsWith(Lower(filename), <<".", "p", "d", "f">>)

\* what the capability answers on the image of a page, per field
NoAnswers ==
    [f \in {"wages_tips_other_comp", "federal_income_tax_withheld",
            "nonemployee_compensation", "interest_income"} |-> <<>>]

Answered(f, chars, hundredths) ==
    [NoAnswers EXCEPT ![f] = <<[answer |-> chars, score |-> hundredths]>>]

\* a W-2 with wages 60,000 and 8,000 withheld
Page_W2 ==
    [page_text |-> Concat(<<Text_Copy_Form, Text_Wages>>),
     answers |->
        [Answered("wages_tips_other_comp", <<"6", "0", ",", "0", "0", "0">>, 90)
            EXCEPT !["federal_income_tax_withheld"] =
                      <<[answer |-> <<"$", "8", "0", "0", "0">>, score |-> 90]>>]]

\* a W-2 with wages 1.1 on which the withholding is not read with confidence
Page_W2_wages_only ==
    [page_text |-> Concat(<<Text_OMB, Text_EIN, Text_Wages>>),
     answers |->
        [Answered("wages_tips_other_comp", <<"1", ".", "1">>, 90)
            EXCEPT !["federal_income_tax_withheld"] =
                      <<[answer |-> <<"9", "9">>, score |-> 5]>>]]

\* a 1099-NEC with compensation 0.2
Page_1099_NEC ==
    [page_text |-> Concat(<<Text_PAYERS, Text_TIN, Text_Copy_Form,
                            Text_Nonemployee>>),
     answers |-> Answered("nonemployee_compensation", <<"0", ".", "2">>, 90)]

\* a 1099-INT with interest 500
Page_1099_INT ==
    [page_text |-> Concat(<<Text_Copy_Form, Text_interest>>),
     answers |-> Answered("interest_income", Answer_500, 90)]

\* a page of instructions, on which the capability would answer all the same
Page_Instructions ==
    [page_text |-> Concat(<<Text_Instructions, Text_Wages>>),
     answers |-> Answered("wages_tips_other_comp", Answer_500, 90)]

Pages ==
    {Page_W2, Page_W2_wages_only, Page_1099_NEC, Page_1099_INT,
     Page_Instructions}

\* lines 295-304 on the extracted_info of one page
summary_after(summary, info) ==
    IF info.form_type # "unknown" THEN Append(summary, info) ELSE summary

\* a plausible slip: the branch of lines 303-304 left out
income_without_interest(total, info) ==
    CASE info.form_type = "W-2" ->
           FloatAdd(total, FloatOfDecimal(DictGet(info.fields,
                                                  "wages_tips_other_comp")))
      [] info.form_type = "1099-NEC" ->
           FloatAdd(total, FloatOfDecimal(DictGet(info.fields,
                                                  "nonemployee_compensation")))
      [] OTHER -> total

income_after(total, info) ==
    CASE info.form_type = "W-2" ->
           FloatAdd(total, FloatOfDecimal(DictGet(info.fields,
                                                  "wages_tips_other_comp")))
      [] info.form_type = "1099-NEC" ->
           FloatAdd(total, FloatOfDecimal(DictGet(info.fields,
                                                  "nonemployee_compensation")))
      [] info.form_type = "1099-INT" ->
           FloatAdd(total, FloatOfDecimal(DictGet(info.fields,
                                                  "interest_income")))
      [] OTHER -> total

withheld_after(total, info) ==
    IF info.form_type = "W-2"
    THEN FloatAdd(total, FloatOfDecimal(DictGet(info.fields,
                                                "federal_income_tax_withheld")))
    ELSE total

\* str.replace on single characters
replace(s, old, new) == [i \in 1..Len(s) |-> IF s[i] = old THEN new ELSE s[i]]

\* form_1040_path, lines 308-309
form_1040_path(status) ==
    path_join(UPLOAD_DIR,
              <<"G", "e", "n", "e", "r", "a", "t", "e", "d", "_", "F", "o",
                "r", "m", "_", "1", "0", "4", "0", "_">>
              \o replace(status, " ", "_") \o <<".", "p", "d", "f">>)

\* the file names of the model's uploads
Name_a == <<"a", ".", "p", "d", "f">>

Name_b == <<"b", ".", "P", "D", "F">>

Name_notes == <<"n", "o", "t", "e", "s", ".", "t", "x", "t">>

FileNames == {Name_a, Name_b, Name_notes}

\* every request of the model files as Single
request_filing_status == Single

Paths ==
    {path_join(UPLOAD_DIR, n) : n \in FileNames}
        \cup {form_1040_path(request_filing_status)}

Documents == UNION {[1..n -> Pages] : n \in 0..MaxPages}

\* one request with one document of up to MaxPages pages
InitOneRequest ==
    /\ \E d \in Documents :
          /\ files = [r \in Requests |->
                        IF r = 1 THEN <<[filename |-> Name_a, pages |-> d]>>
                        ELSE <<>>]
          /\ \/ doc_qa_pipeline = "loaded"
             \/ doc_qa_pipeline = "None" /\ d = <<Page_W2>>
    /\ u_pc = [r \in Requests |-> IF r = 1 THEN "start" ELSE "absent"]

\* the file names of the first of two requests
TwoRequestsNames ==
    {<<Name_a>>, <<Name_a, Name_b>>, <<Name_notes, Name_a>>}

\* two requests at once: the first with one or two one-page files, the
\* second with a file named as one of them may be
InitTwoRequests ==
    /\ \E names \in TwoRequestsNames :
          files = [r \in Requests |->
                     IF r = 1
                     THEN [i \in 1..Len(names) |->
                              [filename |-> names[i], pages |-> <<Page_W2>>]]
                     ELSE <<[filename |-> Name_a,
                             pages |-> <<Page_1099_INT>>]>>]
    /\ doc_qa_pipeline = "loaded"
    /\ u_pc = [r \in Requests |-> "start"]

InitUpload ==
    /\ InitOneRequest \/ InitTwoRequests
    /\ os_name \in {"posix", "nt"}
    /\ upload_dir = [p \in Paths |-> NoFile]
    /\ file_index = [r \in Requests |-> 1]
    /\ page_num = [r \in Requests |-> 1]
    /\ path_index = [r \in Requests |-> 1]
    /\ temp_file_paths = [r \in Requests |-> <<>>]
    /\ doc = [r \in Requests |-> NoDoc]
    /\ total_income = [r \in Requests |-> FloatZero]
    /\ total_federal_withheld = [r \in Requests |-> FloatZero]
    /\ processed_files_summary = [r \in Requests |-> <<>>]
    /\ response = [r \in Requests |-> NoResponse]
    /\ CleanIdle
    /\ TaxIdle
    /\ ExtractIdle

OtherVars == <<cleanVars, taxVars, extractVars>>

\* lines 269-274
Receive(r) ==
    /\ u_pc[r] = "start"
    /\ IF doc_qa_pipeline = "None"
       THEN /\ response' = [response EXCEPT ![r] = [status |-> 503]]
            /\ u_pc' = [u_pc EXCEPT ![r] = "done"]
       ELSE /\ u_pc' = [u_pc EXCEPT ![r] = "files"]
            /\ UNCHANGED response
    /\ UNCHANGED <<os_name, upload_dir, files, file_index, page_num,
                   path_index, temp_file_paths, doc, total_income,
                   total_federal_withheld, processed_files_summary, OtherVars>>

\* lines 277-279: a file that is not a PDF by its name is skipped
SkipFile(r) ==
    /\ u_pc[r] = "files"
    /\ file_index[r] <= Len(files[r])
    /\ is_skipped(files[r][file_index[r]].filename)
    /\ file_index' = [file_index EXCEPT ![r] = @ + 1]
    /\ UNCHANGED <<os_name, upload_dir, files, u_pc, page_num, path_index,
                   temp_file_paths, doc, total_income, total_federal_withheld,
                   processed_files_summary, response, OtherVars>>

\* lines 281-283: the file is written under its own name into UPLOAD_DIR
SaveFile(r) ==
    /\ u_pc[r] = "files"
    /\ file_index[r] <= Len(files[r])
    /\ ~is_skipped(files[r][file_index[r]].filename)
    /\ LET file == files[r][file_index[r]]
           temp_path == path_join(UPLOAD_DIR, file.filename)
       IN  /\ temp_file_paths' =
                 [temp_file_paths EXCEPT ![r] = Append(@, temp_path)]
           /\ upload_dir' =
                 [upload_dir EXCEPT ![temp_path] =
                     [exists |-> TRUE, by |-> r, pages |-> file.pages]]
    /\ u_pc' = [u_pc EXCEPT ![r] = "open"]
    /\ UNCHANGED <<os_name, files, file_index, page_num, path_index, doc,
                   total_income, total_federal_withheld,
                   processed_files_summary, response, OtherVars>>

\* lines 319-321, reached from a raise inside the try block
Raised(r) ==
    /\ response' = [response EXCEPT ![r] = [status |-> 500]]
    /\ u_pc' = [u_pc EXCEPT ![r] = "finally"]

\* line 285: fitz.open raises when no file is at the path
OpenDoc(r) ==
    /\ u_pc[r] = "open"
    /\ LET temp_path == temp_file_paths[r][Len(temp_file_paths[r])]
       IN  IF upload_dir[temp_path] = NoFile
           THEN /\ Raised(r)
                /\ UNCHANGED <<doc, page_num>>
           ELSE /\ doc' = [doc EXCEPT ![r] =
                             [open |-> TRUE, path |-> temp_path,
                              by |-> upload_dir[temp_path].by,
                              pages |-> upload_dir[temp_path].pages]]
                /\ page_num' = [page_num EXCEPT ![r] = 1]
                /\ u_pc' = [u_pc EXCEPT ![r] = "pages"]
                /\ UNCHANGED response
    /\ UNCHANGED <<os_name, upload_dir, files, file_index, path_index,
                   temp_file_paths, total_income, total_federal_withheld,
                   processed_files_summary, OtherVars>>

\* what page page_num of the open document may read as: the page of the
\* file as it was opened or, pages being read from the file on demand, the
\* page of the file another request has written at the path since
pages_read(r) ==
    LET now == upload_dir[doc[r].path]
    IN  {doc[r].pages[page_num[r]]}
          \cup (IF now # NoFile /\ page_num[r] <= Len(now.pages)
                THEN {now.pages[page_num[r]]} ELSE {})

\* lines 286-304: one page of the open document
ProcessPage(r) ==
    /\ u_pc[r] = "pages"
    /\ page_num[r] <= Len(doc[r].pages)
    /\ \E page \in pages_read(r) :
          LET extracted_info ==
                 extract_data_with_ai(page.page_text, page.answers)
          IN  /\ processed_files_summary' =
                    [processed_files_summary EXCEPT
                        ![r] = summary_after(@, extracted_info)]
              /\ total_income' =
                    [total_income EXCEPT ![r] = income_after(@, extracted_info)]
              /\ total_federal_withheld' =
                    [total_federal_withheld EXCEPT
                        ![r] = withheld_after(@, extracted_info)]
    /\ page_num' = [page_num EXCEPT ![r] = @ + 1]
    /\ UNCHANGED <<os_name, upload_dir, files, u_pc, file_index, path_index,
                   temp_file_paths, doc, response, OtherVars>>

\* lines 289-293: rendering the page or the capability raises; line 305 is
\* not reached and the document stays open
PageRaises(r) ==
    /\ u_pc[r] = "pages"
    /\ page_num[r] <= Len(doc[r].pages)
    /\ Raised(r)
    /\ UNCHANGED <<os_name, upload_dir, files, file_index, page_num,
                   path_index, temp_file_paths, doc, total_income,
                   total_federal_withheld, processed_files_summary, OtherVars>>

\* line 305
CloseDoc(r) ==
    /\ u_pc[r] = "pages"
    /\ page_num[r] > Len(doc[r].pages)
    /\ doc' = [doc EXCEPT ![r] = NoDoc]
    /\ file_index' = [file_index EXCEPT ![r] = @ + 1]
    /\ u_pc' = [u_pc EXCEPT ![r] = "files"]
    /\ UNCHANGED <<os_name, upload_dir, files, page_num, path_index,
                   temp_file_paths, total_income, total_federal_withheld,
                   processed_files_summary, response, OtherVars>>

\* lines 307-318: the generated form is written into UPLOAD_DIR and the
\* totals are returned; the other entries of tax_summary are those of
\* calculate_tax_liability on the two totals
Finish(r) ==
    /\ u_pc[r] = "files"
    /\ file_index[r] > Len(files[r])
    /\ upload_dir' =
          [upload_dir EXCEPT ![form_1040_path(request_filing_status)] =
              [exists |-> TRUE, by |-> r, pages |-> <<>>]]
    /\ response' =
          [response EXCEPT ![r] =
              [status |-> 200,
               processed_files_summary |-> processed_files_summary[r],
               gross_income |-> total_income[r],
               total_federal_withheld |-> total_federal_withheld[r]]]
    /\ u_pc' = [u_pc EXCEPT ![r] = "finally"]
    /\ UNCHANGED <<os_name, files, file_index, page_num, path_index,
                   temp_file_paths, doc, total_income, total_federal_withheld,
                   processed_files_summary, OtherVars>>

\* line 324, os.path.exists(path)
CheckExists(r) ==
    /\ u_pc[r] = "finally"
    /\ path_index[r] <= Len(temp_file_paths[r])
    /\ IF upload_dir[temp_file_paths[r][path_index[r]]] # NoFile
       THEN /\ u_pc' = [u_pc EXCEPT ![r] = "remove"]
            /\ UNCHANGED path_index
       ELSE /\ path_index' = [path_index EXCEPT ![r] = @ + 1]
            /\ UNCHANGED u_pc
    /\ UNCHANGED <<os_name, upload_dir, files, file_index, page_num,
                   temp_file_paths, doc, total_income, total_federal_withheld,
                   processed_files_summary, response, OtherVars>>

\* whether os.remove(path) raises: FileNotFoundError when the file has gone
\* since line 324 saw it, PermissionError on Windows while a document opened
\* from the path is not closed
remove_raises(path) ==
    \/ upload_dir[path] = NoFile
    \/ /\ os_name = "nt"
       /\ \E q \in Requests : doc[q] # NoDoc /\ doc[q].path = path

\* line 324, os.remove(path); an exception leaves the finally block, the
\* rest of temp_file_paths is not visited and the server answers 500
RemoveFile(r) ==
    /\ u_pc[r] = "remove"
    /\ LET path == temp_file_paths[r][path_index[r]]
       IN  IF remove_raises(path)
           THEN /\ response' = [response EXCEPT ![r] = [status |-> 500]]
                /\ u_pc' = [u_pc EXCEPT ![r] = "done"]
                /\ UNCHANGED <<upload_dir, path_index>>
           ELSE /\ upload_dir' = [upload_dir EXCEPT ![path] = NoFile]
                /\ path_index' = [path_index EXCEPT ![r] = @ + 1]
                /\ u_pc' = [u_pc EXCEPT ![r] = "finally"]
                /\ UNCHANGED response
    /\ UNCHANGED <<os_name, files, file_index, page_num, temp_file_paths, doc,
                   total_income, total_federal_withheld,
                   processed_files_summary, OtherVars>>

\* the end of the loop of line 323: the response goes out
Complete(r) ==
    /\ u_pc[r] = "finally"
    /\ path_index[r] > Len(temp_file_paths[r])
    /\ u_pc' = [u_pc EXCEPT ![r] = "done"]
    /\ UNCHANGED <<os_name, upload_dir, files, file_index, page_num,
                   path_index, temp_file_paths, doc, total_income,
                   total_federal_withheld, processed_files_summary, response,
                   OtherVars>>

\* the local doc of a handler that has returned is collected, which closes
\* a document line 305 did not close
ReleaseDoc(r) ==
    /\ u_pc[r] = "done"
    /\ doc[r] # NoDoc
    /\ doc' = [doc EXCEPT ![r] = NoDoc]
    /\ UNCHANGED <<os_name, upload_dir, files, u_pc, file_index, page_num,
                   path_index, temp_file_paths, total_income,
                   total_federal_withheld, processed_files_summary, response,
                   OtherVars>>

NextUpload ==
    \/ \E r \in Requests : Receive(r)
    \/ \E r \in Requests : SkipFile(r)
    \/ \E r \in Requests : SaveFile(r)
    \/ \E r \in Requests : OpenDoc(r)
    \/ \E r \in Requests : ProcessPage(r)
    \/ \E r \in Requests : PageRaises(r)
    \/ \E r \in Requests : CloseDoc(r)
    \/ \E r \in Requests : Finish(r)
    \/ \E r \in Requests : CheckExists(r)
    \/ \E r \in Requests : RemoveFile(r)
    \/ \E r \in Requests : Complete(r)
    \/ \E r \in Requests : ReleaseDoc(r)

SpecUpload == InitUpload /\ [][NextUpload]_vars

----------------------------------------------------------------------------
(* C1 *)

\* the highest score among the candidates of a non-empty answer
HighestScore(a) ==
    CHOOSE m \in {a[i].score : i \in 1..Len(a)} :
        \A i \in 1..Len(a) : a[i].score <= m

\* the first candidate of the returned sequence that has the highest score
FirstHighest(a) ==
    a[CHOOSE i \in 1..Len(a) :
        /\ a[i].score = HighestScore(a)
        /\ \A j \in 1..(i - 1) : a[j].score < HighestScore(a)]

\* the fields of the form type, in the order they are asked
FieldsOf(form) == [k \in 1..Len(questions[form]) |-> questions[form][k][1]]

\* what the capability's answer a to the question of field f must do to the
\* fields
AnswerDecidesField(f, a, before, after) ==
    /\ f \notin DOMAIN before
    /\ (f \in DOMAIN after) <=>
          (a # <<>> /\ HighestScore(a) >= CONFIDENCE_THRESHOLD)
    /\ f \in DOMAIN after =>
          after[f] = clean_and_convert_to_float(FirstHighest(a).answer)
    /\ DOMAIN after \ {f} = DOMAIN before
    /\ \A g \in DOMAIN before : after[g] = before[g]

\* C1: every field of the classified form type is asked once, in order;
\* the field is in the result exactly when the capability returned a
\* candidate and the highest score is at least 0.1, and then its value is
\* the answer cleaner's result for the text of the first candidate with the
\* highest score.
C1_FieldPresentIffConfident ==
    /\ [](e_pc = "returned" /\ extracted_data.form_type # "unknown" =>
            /\ Len(qa_calls) = Len(questions[extracted_data.form_type])
            /\ DOMAIN extracted_data.fields \subseteq
                  {FieldsOf(extracted_data.form_type)[k] :
                      k \in 1..Len(qa_calls)})
    /\ [][(qa_calls' # qa_calls /\ e_pc' # "raised") =>
            /\ qa_calls'[Len(qa_calls')][1]
                  = FieldsOf(detected_form_key)[Len(qa_calls')]
            /\ AnswerDecidesField(qa_calls'[Len(qa_calls')][1], answer',
                                  extracted_data.fields,
                                  extracted_data'.fields)]_vars

\* a W-2 page returned, the last answer holding two candidates that tie at
\* the threshold with different texts: the first one's value is stored
C1_Witness ==
    /\ e_pc = "returned"
    /\ extracted_data.form_type = "W-2"
    /\ Len(answer) = 2
    /\ answer[1].score = CONFIDENCE_THRESHOLD
    /\ answer[2].score = CONFIDENCE_THRESHOLD
    /\ answer[1].answer # answer[2].answer
    /\ "federal_income_tax_withheld" \in DOMAIN extracted_data.fields
    /\ extracted_data.fields["federal_income_tax_withheld"]
          = clean_and_convert_to_float(answer[1].answer)
    /\ "wages_tips_other_comp" \notin DOMAIN extracted_data.fields

----------------------------------------------------------------------------
(* C8 *)

\* at least two distinct indicators match the text
TwoIndicatorsMatch(s) ==
    \E k1 \in 1..Len(form_indicators) :
        /\ IndicatorMatches(k1, s)
        /\ \E k2 \in (k1 + 1)..Len(form_indicators) : IndicatorMatches(k2, s)

\* the keyword of some form type occurs in the text
SomeKeywordOccurs(s) ==
    \E k \in 1..Len(form_type_keywords) :
        SearchLiteral(form_type_keywords[k][2], s)

\* C8: the capability is called for a page only if two distinct indicators
\* match its text and it was classified as a known form type; a page that
\* matches fewer than two indicators, or no keyword, is returned as unknown
\* with no fields and without a call.
C8_NoCallBeforeFilterAndClassifier ==
    /\ qa_calls # <<>> =>
          /\ TwoIndicatorsMatch(page_text)
          /\ SomeKeywordOccurs(page_text)
          /\ detected_form_key # "unknown"
          /\ extracted_data.form_type = detected_form_key
    /\ (e_pc = "returned"
        /\ (~TwoIndicatorsMatch(page_text) \/ ~SomeKeywordOccurs(page_text))) =>
          /\ qa_calls = <<>>
          /\ extracted_data = [form_type |-> "unknown", fields |-> EmptyDict]

\* a page with one indicator and a keyword, returned without a call
C8_Witness ==
    /\ e_pc = "returned"
    /\ match_count(page_text) = 1
    /\ SomeKeywordOccurs(page_text)
    /\ qa_calls = <<>>
    /\ extracted_data.form_type = "unknown"

----------------------------------------------------------------------------
(* C9 *)

\* the first form type, in the order W-2, 1099-NEC, 1099-INT, whose keyword
\* occurs in the text, letter case ignored
FirstFormByPriority(s) ==
    IF SearchLiteral(Keyword_W2, s) THEN "W-2"
    ELSE IF SearchLiteral(Keyword_1099_NEC, s) THEN "1099-NEC"
    ELSE IF SearchLiteral(Keyword_1099_INT, s) THEN "1099-INT"
    ELSE "unknown"

\* C9: a page that passed the filter is assigned the first of W-2, 1099-NEC,
\* 1099-INT whose keyword occurs in its text, and unknown when none does.
C9_FirstKeywordByPriority ==
    (e_pc \in {"ask", "returned"} /\ TwoIndicatorsMatch(page_text)) =>
        /\ detected_form_key = FirstFormByPriority(page_text)
        /\ extracted_data.form_type = FirstFormByPriority(page_text)

\* a page holding the lower-cased 1099-INT keyword before the 1099-NEC one,
\* classified 1099-NEC
C9_Witness ==
    /\ e_pc = "returned"
    /\ page_text = Concat(<<Text_Copy_Form, Text_interest, Text_Nonemployee>>)
    /\ extracted_data.form_type = "1099-NEC"

----------------------------------------------------------------------------
(* C2 *)

\* the part of the amount t lying between lo and hi
PartBetween(t, lo, hi) ==
    IF hi = Inf THEN Max2(0, t - lo) ELSE Max2(0, Min2(t, hi) - lo)

\* the amount the calculator taxed at the rate of bracket k
AmountTaxedAt(k) ==
    IF k <= Len(tax_result.taxable_in_bracket)
    THEN tax_result.taxable_in_bracket[k] ELSE 0

\* C2: the amount taxed at the rate of bracket k is the part of the taxable
\* income between the upper bound of bracket k-1 (0 for the first) and the
\* upper bound of bracket k.
C2_EachPartAtItsBracketRate ==
    (tax_result.run /\ tax_result.raised = "") =>
        LET brackets == TAX_BRACKETS_2024[normalized_status]
        IN  \A k \in 1..Len(brackets) :
                AmountTaxedAt(k) =
                    PartBetween(tax_result.taxable_income,
                                IF k = 1 THEN 0 ELSE brackets[k - 1][2],
                                brackets[k][2])

----------------------------------------------------------------------------
(* C3 *)

\* the status a full name or an alias stands for
StatusNamed(fs) ==
    CASE fs = Single -> Single
      [] fs \in {MarriedFilingJointly, MFJ} -> MarriedFilingJointly
      [] fs \in {MarriedFilingSeparately, MFS} -> MarriedFilingSeparately
      [] fs \in {HeadOfHousehold, HoH} -> HeadOfHousehold

\* C3: given a status by its full name or by its alias, the calculator
\* applies that status's own standard deduction and bracket table.
C3_OwnDeductionAndBrackets ==
    (tax_result.run /\ filing_status \in DOMAIN STANDARD_DEDUCTIONS) =>
        /\ tax_result.raised = ""
        /\ tax_result.standard_deduction_applied
              = STANDARD_DEDUCTIONS[StatusNamed(filing_status)]
        /\ normalized_status = StatusNamed(filing_status)

----------------------------------------------------------------------------
(* C4 *)

\* a string with its spaces removed and its letters lower-cased
Folded(s) == RemoveChar(Lower(s), " ")

\* the string is, up to letter case and spaces, a known status or alias
NamesKnownStatus(fs) ==
    \E k \in DOMAIN STANDARD_DEDUCTIONS : Folded(fs) = Folded(k)

\* C4: the calculator never raises; a string that names no known status or
\* alias is computed with the Single deduction and the Single brackets; the
\* status the normalization settles on has a deduction and a bracket table.
C4_NeverRaisesDefaultsToSingle ==
    tax_result.run =>
        /\ tax_result.raised = ""
        /\ normalized_status \in DOMAIN STANDARD_DEDUCTIONS
        /\ normalized_status \in DOMAIN TAX_BRACKETS_2024
        /\ ~NamesKnownStatus(filing_status) =>
              /\ normalized_status = Single
              /\ tax_result.standard_deduction_applied = STANDARD_DEDUCTIONS[Single]
              /\ tax_result.taxable_income = Max2(0, income - STANDARD_DEDUCTIONS[Single])

\* "Foo" with an income above the Single deduction, computed as Single
C4_Witness ==
    /\ tax_result.run
    /\ filing_status = <<"F", "o", "o">>
    /\ income > STANDARD_DEDUCTIONS[Single]
    /\ tax_result.raised = ""
    /\ tax_result.calculated_tax > 0

----------------------------------------------------------------------------
(* C10 *)

\* The pattern, stated on its own: the substring s[i..j] is number-like when
\* it is one or more digits or commas, then at most one point, then digits.
NumberLike(s, i, j) ==
    /\ i <= j
    /\ \E k \in i..j :
          /\ \A m \in i..k : s[m] \in DigitOrComma
          /\ \/ \A m \in (k + 1)..j : s[m] \in Digits
             \/ /\ k < j
                /\ s[k + 1] = "."
                /\ \A m \in (k + 2)..j : s[m] \in Digits

\* The number-like fragments of s from position i on: the longest number-like
\* substring at the first position that starts one, then those after it.
RECURSIVE Fragments(_, _)
Fragments(s, i) ==
    IF i > Len(s) THEN {}
    ELSE LET ends == {j \in i..Len(s) : NumberLike(s, i, j)}
         IN  IF ends = {} THEN Fragments(s, i + 1)
             ELSE LET j == CHOOSE e \in ends : \A e2 \in ends : e2 <= e
                  IN  {<<i, j>>} \cup Fragments(s, j + 1)

\* The number a fragment stands for, commas removed: the fragment parses when
\* it then holds a digit.
FragmentNumbers(s) ==
    {ParseFloat(RemoveChar(SubSeq(s, f[1], f[2]), ",")).v :
        f \in {g \in Fragments(s, 1) :
                 ParseFloat(RemoveChar(SubSeq(s, g[1], g[2]), ",")).ok}}

\* C10: the answer cleaner returns the maximum of the numbers of the
\* number-like fragments of the text, and 0 when the text holds no digit or
\* no fragment parses; the result is a number (nothing is raised) and it is
\* never negative.
C10_CleanIsMaxFragment ==
    clean_result.run =>
        /\ clean_result.value \in Nat
        /\ ~HasDigit(text) => clean_result.value = 0
        /\ FragmentNumbers(text) = {} => clean_result.value = 0
        /\ FragmentNumbers(text) # {} =>
              /\ clean_result.value \in FragmentNumbers(text)
              /\ \A n \in FragmentNumbers(text) : n <= clean_result.value

\* "12,.1-2": two fragments with different numbers, the larger one returned
C10_Witness ==
    /\ clean_result.run
    /\ Cardinality(FragmentNumbers(text)) >= 2
    /\ \E i \in 1..Len(text) : text[i] = ","
    /\ clean_result.value > 0

----------------------------------------------------------------------------
(* C5 *)

Alone(r) == \A q \in Requests \ {r} : u_pc[q] = "absent"

Answered200or500(r) == u_pc[r] = "done" /\ response[r].status \in {200, 500}

\* C5: when an upload request has completed, with a success response or
\* with an internal-error response, no temporary input file it saved is
\* left in the upload directory; stated for a request that runs alone
C5_TempFilesRemovedOnCompletion ==
    \A r \in Requests :
        Alone(r) /\ Answered200or500(r) =>
            \A i \in 1..Len(temp_file_paths[r]) :
                upload_dir[temp_file_paths[r][i]] = NoFile

----------------------------------------------------------------------------
(* C6 *)

\* the request is between saving its first file and its response
Processing(r) == u_pc[r] \in {"files", "open", "pages"}

\* C6: while a request is processing its files, every temporary input file
\* it saved is still there as that request saved it, no other request
\* having overwritten or removed it, and the document the request reads
\* pages from was opened from the file that request saved
C6_TempFilesPrivateToRequest ==
    \A r \in Requests :
        Processing(r) =>
            /\ \A i \in 1..Len(temp_file_paths[r]) :
                  /\ upload_dir[temp_file_paths[r][i]] # NoFile
                  /\ upload_dir[temp_file_paths[r][i]].by = r
            /\ doc[r] # NoDoc =>
                  /\ doc[r].by = r
                  /\ doc[r].pages = files[r][file_index[r]].pages

----------------------------------------------------------------------------
(* C7 *)

IsCollected(info) == info.form_type # "unknown"

IsW2(info) == info.form_type = "W-2"

\* the income a collected result states, an absent field counting as zero
IncomeOf(info) ==
    LET f == CASE info.form_type = "W-2" -> "wages_tips_other_comp"
               [] info.form_type = "1099-NEC" -> "nonemployee_compensation"
               [] info.form_type = "1099-INT" -> "interest_income"
    IN  IF f \in DOMAIN info.fields THEN info.fields[f] ELSE 0

\* the withholding a W-2 result states, an absent field counting as zero
WithheldOf(info) ==
    IF "federal_income_tax_withheld" \in DOMAIN info.fields
    THEN info.fields["federal_income_tax_withheld"] ELSE 0

Incomes(summary) == [i \in 1..Len(summary) |-> IncomeOf(summary[i])]

Withholdings(summary) ==
    LET w2 == SelectSeq(summary, IsW2)
    IN  [i \in 1..Len(w2) |-> WithheldOf(w2[i])]

\* what the extractor returns on each page of the model
ResultOn == [p \in Pages |-> extract_data_with_ai(p.page_text, p.answers)]

\* the amounts the pages of the model state, and their floats
Amounts ==
    {0} \cup UNION {{ResultOn[p].fields[f] : f \in DOMAIN ResultOn[p].fields} :
                    p \in Pages}

FloatOfAmount == [v \in Amounts |-> FloatOfDecimal(v)]

\* the float sum of the amounts, added one after the other to 0.0
RECURSIVE SumInOrder(_)
SumInOrder(amounts) ==
    IF amounts = <<>> THEN FloatZero
    ELSE FloatAdd(SumInOrder(SubSeq(amounts, 1, Len(amounts) - 1)),
                  FloatOfAmount[amounts[Len(amounts)]])

Reordered(amounts, f) == [i \in 1..Len(amounts) |-> amounts[f[i]]]

\* the float sum is the same in whatever order the amounts are added
SameInEveryOrder(amounts) ==
    \A f \in Permutations(1..Len(amounts)) :
        SumInOrder(Reordered(amounts, f)) = SumInOrder(amounts)

\* every amount is a whole number of dollars
WholeDollars(amounts) == \A i \in 1..Len(amounts) : amounts[i] % Scale = 0

\* the results of the pages a request running alone has processed so far
ResultsSoFar(r) ==
    LET pages == files[r][1].pages
    IN  [k \in 1..(page_num[r] - 1) |-> ResultOn[pages[k]]]

\* the request is in the loop over the pages of a document, or has
\* returned its totals
PagesProcessed(r) == u_pc[r] = "pages" \/ response[r].status = 200

====
